---- MODULE Spec2Model ----
(***************************************************************************)
(* Umeeda (src/app.py): the Streamlit script, its module globals           *)
(* INDEX / METADATA, the sidebar admin handlers, the _on_submit callback   *)
(* and decide_reply.                                                       *)
(*                                                                         *)
(* Text.  A Python str is a sequence of pieces.  Every value that comes    *)
(* from outside (entry fields, the query, the service's text) is a         *)
(* sequence of one-character strings, so lower(), strip(), sorted() and    *)
(* == work on characters.  A literal of the program is one piece holding   *)
(* the literal's text (<<"\n\nSource: [">>), except the literals that are  *)
(* compared or sorted ("urgent", "unknown", "?", "Info", " (ID ", ")"),    *)
(* which are spelled out in characters.  Non-ASCII characters of the       *)
(* source's literals are written in ASCII: the warning sign of the banner  *)
(* as (!), the dash of the apology as -.                                   *)
(*                                                                         *)
(* Scores are hundredths: 0.78 is 78.                                      *)
(***************************************************************************)
EXTENDS Integers, Sequences, FiniteSets, TLC

VARIABLES
    INDEX,          \* module global INDEX: a handle, or None
    METADATA,       \* module global METADATA: a handle, or None
    disk,           \* data/: the two index files, kb_import.csv, sources/
    nloads,         \* successful load_index calls so far (names their results)
    pc,             \* where the script run is
    clicked,        \* the sidebar button that triggered this run
    uploaded,       \* the two file_uploader widgets
    session_state,  \* st.session_state: user_input, history, _show_warning
    retrieved,      \* what the retriever answers for the pending query
    service,        \* how the generation service answers the pending prompt
    call,           \* the last decide_reply call: what it did and returned
    admin           \* the last sidebar handler: what it did

vars == <<INDEX, METADATA, disk, nloads, pc, clicked, uploaded, session_state,
          retrieved, service, call, admin>>

---------------------------------------------------------------------------
(* Bounds *)

MaxResults == 2     \* entries the retriever returns (at most TOP_K)
MaxHistory == 1     \* chat turns after which no further query is entered
MaxBuilds == 2      \* index builds (ingest_csv / build_index) that write a file
MaxLoads == 3       \* successful load_index calls

---------------------------------------------------------------------------
(* Python str *)

Ascii ==
    <<" ", "!", "\"", "#", "$", "%", "&", "'", "(", ")", "*", "+", ",", "-", ".", "/",
      "0", "1", "2", "3", "4", "5", "6", "7", "8", "9", ":", ";", "<", "=", ">", "?",
      "@", "A", "B", "C", "D", "E", "F", "G", "H", "I", "J", "K", "L", "M", "N", "O",
      "P", "Q", "R", "S", "T", "U", "V", "W", "X", "Y", "Z", "[", "\\", "]", "^", "_",
      "<grave accent>", "a", "b", "c", "d", "e", "f", "g", "h", "i", "j", "k", "l", "m", "n", "o",
      "p", "q", "r", "s", "t", "u", "v", "w", "x", "y", "z", "{", "|", "}", "~">>

\* ord(c): the code point (the table holds 32..126; 96 is named, not written)
Ord(c) ==
    IF c = "\n" THEN 10
    ELSE IF c = "\t" THEN 9
    ELSE 31 + (CHOOSE i \in 1..Len(Ascii) : Ascii[i] = c)

Chr(n) == Ascii[n - 31]

LowerChar(c) == IF Ord(c) \in 65..90 THEN Chr(Ord(c) + 32) ELSE c

\* str.lower()
lower(s) == [i \in 1..Len(s) |-> LowerChar(s[i])]

IsSpace(c) == c \in {" ", "\n", "\t"}

RECURSIVE lstrip(_)
lstrip(s) == IF s # <<>> /\ IsSpace(s[1]) THEN lstrip(Tail(s)) ELSE s

RECURSIVE rstrip(_)
rstrip(s) ==
    IF s # <<>> /\ IsSpace(s[Len(s)]) THEN rstrip(SubSeq(s, 1, Len(s) - 1)) ELSE s

\* str.strip()
strip(s) == rstrip(lstrip(s))

\* a < b on str: by code point, a proper prefix first
RECURSIVE StrLess(_, _)
StrLess(a, b) ==
    IF a = <<>> THEN b # <<>>
    ELSE IF b = <<>> THEN FALSE
    ELSE IF a[1] = b[1] THEN StrLess(Tail(a), Tail(b))
    ELSE Ord(a[1]) < Ord(b[1])

\* sorted(set of str)
RECURSIVE sorted(_)
sorted(S) ==
    IF S = {} THEN <<>>
    ELSE LET m == CHOOSE x \in S : \A y \in S \ {x} : StrLess(x, y)
         IN  <<m>> \o sorted(S \ {m})

\* sep.join(list of str)
RECURSIVE join(_, _)
join(sep, l) ==
    IF l = <<>> THEN <<>>
    ELSE IF Len(l) = 1 THEN l[1]
    ELSE l[1] \o sep \o join(sep, Tail(l))

---------------------------------------------------------------------------
(* Python values of a score, and float() *)

PyFloat(n) == [t |-> "float", v |-> n, s |-> <<>>]
PyNone == [t |-> "none", v |-> 0, s |-> <<>>]
PyStr(s) == [t |-> "str", v |-> 0, s |-> s]

IsDigit(c) == c \in {"0", "1", "2", "3", "4", "5", "6", "7", "8", "9"}

RECURSIVE DigitsValue(_)
DigitsValue(d) ==
    IF d = <<>> THEN 0
    ELSE 10 * DigitsValue(SubSeq(d, 1, Len(d) - 1)) + (Ord(d[Len(d)]) - 48)

\* the decimal literals float() takes, of the shapes d+, d+.d*, d*.d+ (at most two
\* decimals carry to the hundredths)
IsDecimal(s) ==
    /\ s # <<>>
    /\ \A i \in 1..Len(s) : IsDigit(s[i]) \/ s[i] = "."
    /\ Cardinality({i \in 1..Len(s) : s[i] = "."}) <= 1
    /\ \E i \in 1..Len(s) : IsDigit(s[i])

DecimalValue(s) ==
    LET dots == {i \in 1..Len(s) : s[i] = "."}
        dot == IF dots = {} THEN Len(s) + 1 ELSE CHOOSE i \in dots : TRUE
        whole == SubSeq(s, 1, dot - 1)
        frac == SubSeq(s, dot + 1, Len(s))
        f2 == IF Len(frac) = 0 THEN 0
              ELSE IF Len(frac) = 1 THEN 10 * DigitsValue(frac)
              ELSE DigitsValue(SubSeq(frac, 1, 2))
    IN  100 * DigitsValue(whole) + f2

\* float(x): the value in hundredths, or the exception it raises
pyfloat(x) ==
    CASE x.t = "float" -> [ok |-> TRUE, v |-> x.v, exc |-> ""]
      [] x.t = "none" -> [ok |-> FALSE, v |-> 0, exc |-> "TypeError"]
      [] x.t = "str" ->
            IF IsDecimal(strip(x.s))
            THEN [ok |-> TRUE, v |-> DecimalValue(strip(x.s)), exc |-> ""]
            ELSE [ok |-> FALSE, v |-> 0, exc |-> "ValueError"]

---------------------------------------------------------------------------
(* Entries: a dict is a function on the keys it holds *)

\* r.get(k, d)
get(r, k, d) == IF k \in DOMAIN r THEN r[k] ELSE d

\* r.get(k) or rest: a missing key gives None and an empty str is falsy too
OrGet(r, k, rest) == IF k \in DOMAIN r /\ r[k] # <<>> THEN r[k] ELSE rest

---------------------------------------------------------------------------
(* Constants of app.py *)

HIGH_CONFIDENCE_THRESHOLD == 78

TOP_K == 4

\* the text is one piece: nothing reads inside it
CULTURE_SYSTEM_PROMPT ==
    <<"\nYou are Umeeda, an assistant for users in Pakistan. [...rules 1-5...]\n">>

UNKNOWN == <<"u", "n", "k", "n", "o", "w", "n">>
INFO == <<"I", "n", "f", "o">>
URGENT == <<"u", "r", "g", "e", "n", "t">>
QMARK == <<"?">>

NO_REFERENCE ==
    <<"I couldn't find a direct reference. Please rephrase or ask for more details.">>
SORRY == <<"Sorry - I couldn't produce an answer.">>
URGENT_BANNER == <<"(!) This appears urgent. Please consult a qualified person.\n\n">>
ERROR_CONTACTING == <<"Error contacting model: ">>
SOURCES_LABEL == <<"\n\nSources: ">>
NO_STRIP == <<"'Content' object has no attribute 'strip'">>

None == [load |-> 0, obj |-> "None"]

---------------------------------------------------------------------------
(* The generation service: model.generate_content and the reading of its     *)
(* response (the body of each try block)                                     *)

\* A response of the service.  raises: generate_content raised, with message err.
\* text: resp.text, <<>> when it is None or "".  candidates: resp.candidates, each
\* with its content: a str, None, or an object (which has no strip()).
Response(raises, err, text, candidates) ==
    [raises |-> raises, err |-> err, text |-> text, candidates |-> candidates]

ContentStr(s) == [kind |-> "str", s |-> s, truthy |-> s # <<>>]
ContentNone == [kind |-> "none", s |-> <<>>, truthy |-> FALSE]
ContentObj(truthy) == [kind |-> "obj", s |-> <<>>, truthy |-> truthy]

\* text = getattr(resp, "text", None)
\* if not text and hasattr(resp, "candidates") and resp.candidates:
\*     text = getattr(resp.candidates[0], "content", None)
ExtractText(resp) ==
    IF resp.text = <<>> /\ resp.candidates # <<>>
    THEN resp.candidates[1]
    ELSE ContentStr(resp.text)

\* text.strip() if text else "Sorry ...": the final text, or the exception
\* (an object has no strip(): AttributeError)
FinalText(resp) ==
    LET text == ExtractText(resp)
    IN  IF ~text.truthy THEN [ok |-> TRUE, text |-> SORRY]
        ELSE IF text.kind = "str" THEN [ok |-> TRUE, text |-> strip(text.s)]
        ELSE [ok |-> FALSE, text |-> NO_STRIP]

\* the try block up to final: generate_content(prompt), then the reading
Generate(resp) ==
    IF resp.raises THEN [ok |-> FALSE, text |-> resp.err] ELSE FinalText(resp)

---------------------------------------------------------------------------
(* decide_reply *)

\* what a call did: how it ended, the str it returned (<<>> when it raised), the
\* exception that left it, the prompt sent to the service, the calls it made and
\* the handles it gave the retriever
Did(query, outcome, reply, exc, prompt, nretrieve, ngenerate, used) ==
    [query |-> query, outcome |-> outcome, reply |-> reply, exc |-> exc,
     prompt |-> prompt, nretrieve |-> nretrieve, ngenerate |-> ngenerate,
     used |-> used]

\* if INDEX is None or METADATA is None
NoKB(index, metadata) == index = None \/ metadata = None

\* FallbackPrompt built on the grounded template, with an empty context
FallbackPrompt_AsGrounded(query) ==
    CULTURE_SYSTEM_PROMPT \o <<"\n\nRetrieved knowledge:\n">> \o <<"\nUser question:\n">>
        \o query \o <<"\n\nAnswer using the retrieved knowledge and cite sources.">>

\* prompt = CULTURE_SYSTEM_PROMPT + "\n\nUser: " + query
FallbackPrompt(query) == CULTURE_SYSTEM_PROMPT \o <<"\n\nUser: ">> \o query

\* retrieve(query, INDEX, METADATA, top_k=4): the retriever's answer, at most top_k
retrieve(answer, top_k) ==
    IF Len(answer) <= top_k THEN answer ELSE SubSeq(answer, 1, top_k)

\* AnyUrgent looking at the top entry alone
AnyUrgent_TopOnly(results) ==
    \/ lower(get(results[1], "risk_level", <<>>)) = URGENT
    \/ lower(get(results[1], "risk", <<>>)) = URGENT

\* any(r.get("risk_level","").lower()=="urgent" or r.get("risk","").lower()=="urgent"
\*     for r in results)
AnyUrgent(results) ==
    \E i \in 1..Len(results) :
        \/ lower(get(results[i], "risk_level", <<>>)) = URGENT
        \/ lower(get(results[i], "risk", <<>>)) = URGENT

\* the direct answer: f"{prefix}{short_answer}\n\nSource: [{source} | ID:{entry_id}]"
DirectAnswer(results) ==
    LET top == results[1]
        short_answer == OrGet(top, "short_answer", OrGet(top, "text", <<>>))
        entry_id == OrGet(top, "id", OrGet(top, "chunk_id", UNKNOWN))
        source == get(top, "source", UNKNOWN)
        prefix == IF AnyUrgent(results) THEN URGENT_BANNER ELSE <<>>
    IN  prefix \o short_answer \o <<"\n\nSource: [">> \o source \o <<" | ID:">>
            \o entry_id \o <<"]">>

\* one pass of the loop: f"[{r_src} | ID:{r_id} | Risk:{r_risk}]\n{r_detail}\n\n"
ContextBlock(r) ==
    LET r_src == get(r, "source", UNKNOWN)
        r_id == get(r, "id", get(r, "chunk_id", UNKNOWN))
        r_risk == get(r, "risk_level", get(r, "risk", INFO))
        r_detail == OrGet(r, "detailed_answer", OrGet(r, "text", <<>>))
    IN  <<"[">> \o r_src \o <<" | ID:">> \o r_id \o <<" | Risk:">> \o r_risk
            \o <<"]\n">> \o r_detail \o <<"\n\n">>

\* RagContext putting each block in front of the ones before it
RECURSIVE RagContext_Prepending(_, _)
RagContext_Prepending(results, n) ==
    IF n = 0 THEN <<>>
    ELSE ContextBlock(results[n]) \o RagContext_Prepending(results, n - 1)

\* rag_context = ""; for r in results: rag_context += ...   (after n passes)
RECURSIVE RagContext(_, _)
RagContext(results, n) ==
    IF n = 0 THEN <<>>
    ELSE RagContext(results, n - 1) \o ContextBlock(results[n])

RagPrompt(query, results) ==
    CULTURE_SYSTEM_PROMPT \o <<"\n\nRetrieved knowledge:\n">>
        \o RagContext(results, Len(results)) \o <<"\nUser question:\n">> \o query
        \o <<"\n\nAnswer using the retrieved knowledge and cite sources.">>

\* f"{r.get('source','unknown')} (ID {r.get('id', r.get('chunk_id','?'))})"
SourceItem(r) ==
    get(r, "source", UNKNOWN) \o <<" ", "(", "I", "D", " ">>
        \o get(r, "id", get(r, "chunk_id", QMARK)) \o <<")">>

\* SourcesList without the set and the sort: one item per entry, as retrieved
SourcesList_AsRetrieved(results) ==
    join(<<",", " ">>, [i \in 1..Len(results) |-> SourceItem(results[i])])

\* ", ".join(sorted({... for r in results}))
SourcesList(results) ==
    join(<<",", " ">>, sorted({SourceItem(results[i]) : i \in 1..Len(results)}))

\* the high-confidence test: score >= HIGH_CONFIDENCE_THRESHOLD and short_answer
HighConfidence(score, top) ==
    /\ score >= HIGH_CONFIDENCE_THRESHOLD
    /\ OrGet(top, "short_answer", OrGet(top, "text", <<>>)) # <<>>

\* lines 94-105: the grounded prompt, the service, the sources appended
Grounded(query, results, resp, used) ==
    LET prompt == RagPrompt(query, results)
        g == Generate(resp)
    IN  IF g.ok
        THEN Did(query, "generated", g.text \o SOURCES_LABEL \o SourcesList(results),
                 "", prompt, 1, 1, used)
        ELSE Did(query, "genfailed", ERROR_CONTACTING \o g.text, "", prompt, 1, 1, used)

\* lines 67-83: the top entry's score and the direct answer
Scored(query, results, resp, used) ==
    LET top == results[1]
        score == pyfloat(get(top, "score", PyFloat(0)))
    IN  IF ~score.ok
        THEN Did(query, "raised", <<>>, score.exc, <<>>, 1, 0, used)
        ELSE IF HighConfidence(score.v, top)
        THEN Did(query, "direct", DirectAnswer(results), "", <<>>, 1, 0, used)
        ELSE Grounded(query, results, resp, used)

\* WithKB sending an empty retrieval to the service like a low-confidence one
WithKB_EmptyIsGrounded(query, results, resp, used) ==
    IF results = <<>>
    THEN Grounded(query, results, resp, used)
    ELSE Scored(query, results, resp, used)

\* lines 63-65: if not results
WithKB(query, results, resp, used) ==
    IF results = <<>>
    THEN Did(query, "noresult", NO_REFERENCE, "", <<>>, 1, 0, used)
    ELSE Scored(query, results, resp, used)

\* lines 50-60: no KB
Fallback(query, resp) ==
    LET prompt == FallbackPrompt(query)
        g == Generate(resp)
    IN  IF g.ok
        THEN Did(query, "generated", g.text, "", prompt, 0, 1, <<None, None>>)
        ELSE Did(query, "genfailed", ERROR_CONTACTING \o g.text, "", prompt, 0, 1,
                 <<None, None>>)

\* decide_reply(query) with the globals index, metadata; answer is what the
\* retriever returns and resp how the service responds
decide_reply(query, index, metadata, answer, resp) ==
    IF NoKB(index, metadata)
    THEN Fallback(query, resp)
    ELSE WithKB(query, retrieve(answer, TOP_K), resp, <<index, metadata>>)

NoCall == Did(<<>>, "none", <<>>, "", <<>>, 0, 0, <<None, None>>)

---------------------------------------------------------------------------
(* The script run and its handlers *)

Handle(n, obj) == [load |-> n, obj |-> obj]

MaxOf(a, b) == IF a >= b THEN a ELSE b

\* load_index("data/kb_index.faiss", "data/metadata.pkl") as its callers see it: it
\* raises, or returns two objects of its own.  It cannot return when a file is
\* missing.
LoadOutcomes == IF disk.index > 0 /\ disk.meta > 0 THEN {"ok", "raise"} ELSE {"raise"}

\* ingest_csv(...) / build_index(...) as their callers see them: both files written,
\* or an exception before any write, or an exception between the two writes
BuildOutcomes == {"ok", "raise", "raise_between"}

Built(outcome) ==
    LET v == MaxOf(disk.index, disk.meta) + 1
    IN  CASE outcome = "ok" -> [disk EXCEPT !.index = v, !.meta = v]
          [] outcome = "raise" -> disk
          [] outcome = "raise_between" -> [disk EXCEPT !.index = v]

\* lines 36-43, each run of the script
StartupLoad ==
    /\ pc = "load"
    /\ \E o \in LoadOutcomes :
          IF o = "ok"
          THEN /\ INDEX' = Handle(nloads + 1, "index")
               /\ METADATA' = Handle(nloads + 1, "metadata")
               /\ nloads' = nloads + 1
               /\ admin' = [op |-> "startup", ok |-> TRUE, before |-> <<INDEX, METADATA>>]
          ELSE /\ INDEX' = None
               /\ METADATA' = None
               /\ nloads' = nloads
               /\ admin' = [op |-> "startup", ok |-> FALSE, before |-> <<INDEX, METADATA>>]
    /\ pc' = "uploads"
    /\ UNCHANGED <<disk, clicked, uploaded, session_state, retrieved, service, call>>

\* lines 116-131: a file held by an uploader is written on every run
SaveUploads ==
    /\ pc = "uploads"
    /\ disk' = [disk EXCEPT !.pdf = disk.pdf \/ uploaded.pdf,
                            !.csv = disk.csv \/ uploaded.csv]
    /\ pc' = "buttons"
    /\ UNCHANGED <<INDEX, METADATA, nloads, clicked, uploaded, session_state,
                   retrieved, service, call, admin>>

\* ImportCSV assigning INDEX alone from the new load
ImportCSV_IndexOnly ==
    /\ pc = "buttons"
    /\ clicked = "import"
    /\ IF ~disk.csv
       THEN /\ admin' = [op |-> "import", ok |-> FALSE, before |-> <<INDEX, METADATA>>]
            /\ UNCHANGED <<INDEX, METADATA, nloads, disk>>
       ELSE \E b \in BuildOutcomes :
              /\ disk' = Built(b)
              /\ \E o \in (IF b = "ok" THEN {"ok", "raise"} ELSE {"raise"}) :
                    IF o = "ok"
                    THEN /\ INDEX' = Handle(nloads + 1, "index")
                         /\ METADATA' = METADATA
                         /\ nloads' = nloads + 1
                         /\ admin' = [op |-> "import", ok |-> TRUE,
                                      before |-> <<INDEX, METADATA>>]
                    ELSE /\ admin' = [op |-> "import", ok |-> FALSE,
                                      before |-> <<INDEX, METADATA>>]
                         /\ UNCHANGED <<INDEX, METADATA, nloads>>
    /\ pc' = "idle"
    /\ UNCHANGED <<clicked, uploaded, session_state, retrieved, service, call>>

\* lines 134-145
ImportCSV ==
    /\ pc = "buttons"
    /\ clicked = "import"
    /\ IF ~disk.csv
       THEN /\ admin' = [op |-> "import", ok |-> FALSE, before |-> <<INDEX, METADATA>>]
            /\ UNCHANGED <<INDEX, METADATA, nloads, disk>>
       ELSE \E b \in BuildOutcomes :
              /\ disk' = Built(b)
              /\ \E o \in (IF b = "ok" THEN {"ok", "raise"} ELSE {"raise"}) :
                    IF o = "ok"
                    THEN /\ INDEX' = Handle(nloads + 1, "index")
                         /\ METADATA' = Handle(nloads + 1, "metadata")
                         /\ nloads' = nloads + 1
                         /\ admin' = [op |-> "import", ok |-> TRUE,
                                      before |-> <<INDEX, METADATA>>]
                    ELSE /\ admin' = [op |-> "import", ok |-> FALSE,
                                      before |-> <<INDEX, METADATA>>]
                         /\ UNCHANGED <<INDEX, METADATA, nloads>>
    /\ pc' = "idle"
    /\ UNCHANGED <<clicked, uploaded, session_state, retrieved, service, call>>

\* lines 147-154
RebuildIndex ==
    /\ pc = "buttons"
    /\ clicked = "rebuild"
    /\ \E b \in BuildOutcomes :
          /\ disk' = Built(b)
          /\ \E o \in (IF b = "ok" THEN {"ok", "raise"} ELSE {"raise"}) :
                IF o = "ok"
                THEN /\ INDEX' = Handle(nloads + 1, "index")
                     /\ METADATA' = Handle(nloads + 1, "metadata")
                     /\ nloads' = nloads + 1
                     /\ admin' = [op |-> "rebuild", ok |-> TRUE,
                                  before |-> <<INDEX, METADATA>>]
                ELSE /\ admin' = [op |-> "rebuild", ok |-> FALSE,
                                  before |-> <<INDEX, METADATA>>]
                     /\ UNCHANGED <<INDEX, METADATA, nloads>>
    /\ pc' = "idle"
    /\ UNCHANGED <<clicked, uploaded, session_state, retrieved, service, call>>

\* lines 175-213: no button was pressed; the input and the history are drawn
Render ==
    /\ pc = "buttons"
    /\ clicked = "none"
    /\ pc' = "idle"
    /\ UNCHANGED <<INDEX, METADATA, disk, nloads, clicked, uploaded, session_state,
                   retrieved, service, call, admin>>

\* lines 157-172: the on_change callback of the text input, run before the script
_on_submit ==
    /\ pc = "callback"
    /\ LET query == strip(session_state.user_input)
       IN  IF query = <<>>
           THEN /\ session_state' = [session_state EXCEPT !.show_warning = TRUE]
                /\ call' = call
                /\ pc' = "load"
           ELSE LET r == decide_reply(query, INDEX, METADATA, retrieved, service)
                IN  /\ call' = r
                    /\ IF r.outcome = "raised"
                       THEN /\ session_state' = session_state
                            /\ pc' \in {"idle", "load"}
                       ELSE /\ session_state' =
                                  [user_input |-> <<>>,
                                   history |-> Append(session_state.history,
                                                      <<query, r.reply>>),
                                   show_warning |-> FALSE]
                            /\ pc' = "load"
    /\ UNCHANGED <<INDEX, METADATA, disk, nloads, clicked, uploaded, retrieved,
                   service, admin>>

\* a widget of the sidebar is used (lines 116, 125, 134, 147): the script runs again
Interact ==
    /\ pc = "idle"
    /\ nloads + 2 <= MaxLoads
    /\ \E c \in {"none", "import", "rebuild"} :
          /\ c # "none" => MaxOf(disk.index, disk.meta) < MaxBuilds
          /\ clicked' = c
    /\ uploaded' \in [pdf : BOOLEAN, csv : BOOLEAN]
    /\ pc' = "load"
    /\ UNCHANGED <<INDEX, METADATA, disk, nloads, session_state, retrieved, service,
                   call, admin>>

---------------------------------------------------------------------------
(* Inputs *)

\* a dict with key k, or without it
Opt(k, values) == {<<>>} \cup {k :> v : v \in values}

A1 == <<"A", "1">>
B2 == <<"b", "2">>
C1 == <<"c", "1">>
SRC_Q == <<"Q">>
SRC_M == <<"m">>
SHORT == <<"B", "e">>
TEXT == <<"t", "x">>
DETAIL == <<"D", "e", "t">>
HI == <<"h", "i">>

ScoreValues ==
    {PyFloat(40), PyFloat(77), PyFloat(78), PyFloat(95), PyNone,
     PyStr(<<"h", "i", "g", "h">>), PyStr(<<"0", ".", "9">>)}

RiskLevels == {<<>>, INFO, <<"U", "r", "g", "e", "n", "t">>, <<"U", "R", "G", "E", "N", "T">>}
Risks == {URGENT, <<"L", "o", "w">>}

\* an entry that gives a direct answer, and one that does not
E_HIGH ==
    ("id" :> A1) @@ ("source" :> SRC_Q) @@ ("score" :> PyFloat(90))
        @@ ("short_answer" :> SHORT) @@ ("detailed_answer" :> DETAIL)
E_LOW ==
    ("id" :> B2) @@ ("source" :> SRC_M) @@ ("score" :> PyFloat(40))
        @@ ("short_answer" :> SHORT) @@ ("detailed_answer" :> DETAIL)

\* the sequences over S of length 0..n
RECURSIVE SeqsUpTo(_, _)
SeqsUpTo(S, n) ==
    IF n = 0 THEN {<<>>}
    ELSE LET shorter == SeqsUpTo(S, n - 1)
         IN  shorter \cup {Append(l, e) : l \in shorter, e \in S}

\* responses of the service
SvcText(t) == Response(FALSE, <<>>, t, <<>>)
SvcRaises == Response(TRUE, <<"q", "u", "o", "t", "a">>, <<>>, <<>>)
SvcEmpty == Response(FALSE, <<>>, <<>>, <<>>)
SvcCandidate(c) == Response(FALSE, <<>>, <<>>, <<c>>)

OK_TEXT == <<"o", "k">>

AllServices ==
    {SvcText(OK_TEXT), SvcText(<<" ", "o", "k", "\n">>), SvcText(<<" ">>), SvcRaises,
     SvcEmpty, SvcCandidate(ContentStr(OK_TEXT)), SvcCandidate(ContentNone),
     SvcCandidate(ContentObj(TRUE)), SvcCandidate(ContentObj(FALSE))}

Queries == {HI, <<" ", "h", "i", " ">>, <<" ">>}

\* the decision: every score, short answer and text of the top entry
TopEntries ==
    {("id" :> A1) @@ ("source" :> SRC_Q) @@ sc @@ sa @@ tx :
        sc \in Opt("score", ScoreValues),
        sa \in Opt("short_answer", {<<>>, SHORT}),
        tx \in Opt("text", {<<>>, TEXT})}

DecisionInputs ==
    {<<>>} \cup {<<top>> \o rest : top \in TopEntries,
                                   rest \in SeqsUpTo({E_LOW}, MaxResults - 1)}

\* the risk fields of every entry, under a top entry of either confidence
RiskFields ==
    {("id" :> A1) @@ ("source" :> SRC_Q) @@ ("short_answer" :> SHORT) @@ rl @@ rk :
        rl \in Opt("risk_level", RiskLevels),
        rk \in Opt("risk", Risks)}

RiskInputs ==
    {<<sc @@ top>> \o rest :
        sc \in {"score" :> PyFloat(95), "score" :> PyFloat(40)},
        top \in RiskFields,
        rest \in SeqsUpTo({("score" :> PyFloat(40)) @@ e : e \in RiskFields},
                          MaxResults - 1)}

\* the identity fields of every entry
IdentityEntries ==
    {("score" :> PyFloat(40)) @@ id @@ ch @@ src :
        id \in Opt("id", {<<>>, A1}),
        ch \in Opt("chunk_id", {<<>>, C1}),
        src \in Opt("source", {<<>>, SRC_Q})}

\* the answer texts and the risk of every entry
DetailEntries ==
    {("score" :> PyFloat(40)) @@ ("id" :> A1) @@ da @@ tx @@ rl :
        da \in Opt("detailed_answer", {<<>>, DETAIL}),
        tx \in Opt("text", {TEXT}),
        rl \in {<<>>, "risk_level" :> <<"U", "r", "g", "e", "n", "t">>,
                "risk" :> <<"L", "o", "w">>}}

\* the same entries under a confident top entry
Confident(e) == ("score" :> PyFloat(95)) @@ ("short_answer" :> SHORT) @@ e

CiteInputs ==
    LET lists == (SeqsUpTo(IdentityEntries, MaxResults)
                    \cup SeqsUpTo(DetailEntries, MaxResults)) \ {<<>>}
    IN  lists \cup {<<Confident(l[1])>> \o Tail(l) : l \in lists}

---------------------------------------------------------------------------
(* The application *)

\* the user types a query into the text input (line 175) and commits it
EnterQuery ==
    /\ pc = "idle"
    /\ nloads + 2 <= MaxLoads
    /\ Len(session_state.history) < MaxHistory
    /\ \E q \in Queries :
          /\ q # session_state.user_input
          /\ session_state' = [session_state EXCEPT !.user_input = q]
    /\ retrieved' \in {<<>>, <<E_HIGH>>, <<E_LOW, E_HIGH>>}
    /\ service' \in {SvcText(OK_TEXT), SvcRaises}
    /\ clicked' = "none"
    /\ pc' = "callback"
    /\ UNCHANGED <<INDEX, METADATA, disk, nloads, uploaded, call, admin>>

NoAdmin == [op |-> "none", ok |-> TRUE, before |-> <<None, None>>]

\* the first run starts: lines 36-37, with data/ as the last session left it
Init ==
    /\ INDEX = None
    /\ METADATA = None
    /\ disk \in {[index |-> 0, meta |-> 0, csv |-> FALSE, pdf |-> FALSE],
                 [index |-> 1, meta |-> 1, csv |-> TRUE, pdf |-> FALSE]}
    /\ nloads = 0
    /\ pc = "load"
    /\ clicked = "none"
    /\ uploaded = [pdf |-> FALSE, csv |-> FALSE]
    /\ session_state = [user_input |-> <<>>, history |-> <<>>, show_warning |-> FALSE]
    /\ retrieved = <<>>
    /\ service = SvcEmpty
    /\ call = NoCall
    /\ admin = NoAdmin

Next ==
    \/ StartupLoad
    \/ SaveUploads
    \/ ImportCSV
    \/ RebuildIndex
    \/ Render
    \/ Interact
    \/ EnterQuery
    \/ _on_submit

Spec == Init /\ [][Next]_vars

\* a query is committed: the callback is about to run
Pending(inputs, services, queries, loads, warnings) ==
    /\ nloads \in loads
    /\ INDEX = IF nloads = 0 THEN None ELSE Handle(1, "index")
    /\ METADATA = IF nloads = 0 THEN None ELSE Handle(1, "metadata")
    /\ disk = [index |-> 1, meta |-> 1, csv |-> TRUE, pdf |-> FALSE]
    /\ pc = "callback"
    /\ clicked = "none"
    /\ uploaded = [pdf |-> FALSE, csv |-> FALSE]
    /\ session_state \in [user_input : queries, history : {<<>>}, show_warning : warnings]
    /\ retrieved \in inputs
    /\ service \in services
    /\ call = NoCall
    /\ admin = NoAdmin

\* decide_reply on every decision input, with and without an index
InitDecision == Pending(DecisionInputs, AllServices, Queries, {0, 1}, BOOLEAN)
SpecDecision == InitDecision /\ [][_on_submit]_vars

\* decide_reply on the risk inputs, with an index
InitRisk == Pending(RiskInputs, {SvcText(OK_TEXT)}, {HI, <<" ">>}, {1}, {FALSE})
SpecRisk == InitRisk /\ [][_on_submit]_vars

\* decide_reply on the citation inputs, with an index
InitCite == Pending(CiteInputs, {SvcText(OK_TEXT), SvcRaises}, {HI}, {1}, {FALSE})
SpecCite == InitCite /\ [][_on_submit]_vars

---------------------------------------------------------------------------
(* What the claims speak of *)

Called == call.outcome # "none"
HasIndex == INDEX # None /\ METADATA # None
UsedKB == Called /\ HasIndex /\ retrieved # <<>>
Generation == {"generated", "genfailed"}

\* the first non-empty of the entry's fields keys, else the default
RECURSIVE FirstNonEmpty(_, _, _)
FirstNonEmpty(e, keys, default) ==
    IF keys = <<>> THEN default
    ELSE IF keys[1] \in DOMAIN e /\ e[keys[1]] # <<>> THEN e[keys[1]]
    ELSE FirstNonEmpty(e, Tail(keys), default)

NormId(e) == FirstNonEmpty(e, <<"id", "chunk_id">>, UNKNOWN)
NormSource(e) == FirstNonEmpty(e, <<"source">>, UNKNOWN)
NormShort(e) == FirstNonEmpty(e, <<"short_answer", "text">>, <<>>)
NormRisk(e) == FirstNonEmpty(e, <<"risk_level", "risk">>, INFO)

Positions(s, piece) == {p \in 1..Len(s) : s[p] = piece}
Nth(P, i) == CHOOSE p \in P : Cardinality({q \in P : q <= p}) = i
Range(l) == {l[i] : i \in 1..Len(l)}

\* the reply opens with the urgency banner
HasBanner == call.reply # <<>> /\ call.reply[1] = URGENT_BANNER[1]

\* the source and the id of the direct answer's "Source: [source | ID:id]" line
DirectSourceShown ==
    LET o == Nth(Positions(call.reply, "\n\nSource: ["), 1)
        p == Nth(Positions(call.reply, " | ID:"), 1)
    IN  SubSeq(call.reply, o + 1, p - 1)
DirectIdShown ==
    LET p == Nth(Positions(call.reply, " | ID:"), 1)
    IN  SubSeq(call.reply, p + 1, Len(call.reply) - 1)

\* the source and the id of the i-th "[source | ID:id | Risk:risk]" of the prompt
HeaderSourceShown(i) ==
    LET p == Nth(Positions(call.prompt, " | ID:"), i)
        o == CHOOSE x \in Positions(call.prompt, "[") :
                 x < p /\ \A y \in Positions(call.prompt, "[") : y < p => y <= x
    IN  SubSeq(call.prompt, o + 1, p - 1)
HeaderIdShown(i) ==
    LET p == Nth(Positions(call.prompt, " | ID:"), i)
        q == Nth(Positions(call.prompt, " | Risk:"), i)
    IN  SubSeq(call.prompt, p + 1, q - 1)

\* what follows "Sources: " in the reply
SourcesShown ==
    LET p == Nth(Positions(call.reply, SOURCES_LABEL[1]), 1)
    IN  SubSeq(call.reply, p + 1, Len(call.reply))

\* str is the items, each once, in ascending order, joined by ", "
IsSortedJoin(str, items) ==
    \E l \in [1..Cardinality(items) -> items] :
        /\ \A i, j \in 1..Cardinality(items) : i < j => StrLess(l[i], l[j])
        /\ str = join(<<",", " ">>, l)

\* the lists with the entries of l, in any order, one of them possibly repeated
Rearrangements(l) == {m \in SeqsUpTo(Range(l), Len(l) + 1) : Range(m) = Range(l)}

---------------------------------------------------------------------------
(* C1 *)

\* C1: with at least one retrieved entry, decide_reply gives the direct answer (the
\* short answer and one Source line, the service not called) if and only if the
\* top score is >= HIGH_CONFIDENCE_THRESHOLD and the resolved short answer is not
\* empty; in every other case it builds the grounded prompt and calls the service.
C1_DirectIffConfident ==
    UsedKB =>
        LET top == retrieved[1]
            score == pyfloat(get(top, "score", PyFloat(0)))
            confident == /\ score.ok
                         /\ score.v >= HIGH_CONFIDENCE_THRESHOLD
                         /\ NormShort(top) # <<>>
        IN  /\ call.outcome = "direct" <=> confident
            /\ confident =>
                  /\ call.ngenerate = 0
                  /\ \E prefix \in {<<>>, URGENT_BANNER} :
                        call.reply = prefix \o NormShort(top) \o <<"\n\nSource: [">>
                            \o DirectSourceShown \o <<" | ID:">> \o DirectIdShown
                            \o <<"]">>
            /\ ~confident =>
                  /\ call.outcome \in Generation
                  /\ call.ngenerate = 1
                  /\ Positions(call.prompt, "\n\nRetrieved knowledge:\n") # {}

\* the same, for the scores float() takes (a float, a decimal str, or none given)
DirectIffConfidentOnNumbers ==
    (UsedKB /\ pyfloat(get(retrieved[1], "score", PyFloat(0))).ok)
        => C1_DirectIffConfident

---------------------------------------------------------------------------
(* C4 *)

NotANumber(x) == x.t = "none" \/ (x.t = "str" /\ \A i \in 1..Len(x.s) : ~IsDigit(x.s[i]))

\* C4: when the top entry's score is absent or is not a number, decide_reply takes
\* it as 0.0 and goes down the low-confidence branch; the score never makes it raise.
C4_BadScoreIsZero ==
    (UsedKB /\ ("score" \notin DOMAIN retrieved[1] \/ NotANumber(retrieved[1].score)))
        => /\ call.outcome \in Generation
           /\ call.exc = ""

---------------------------------------------------------------------------
(* C9 *)

\* C9: every decide_reply call ends in one of the four terminal outcomes and returns
\* a reply: the service is called at most once, not at all for a direct answer or no
\* result, and a failure of the service becomes an "Error contacting model: ..."
\* reply instead of leaving the call.
C9_OneOutcomeAlwaysAReply ==
    Called =>
        /\ call.outcome \in {"direct", "noresult", "generated", "genfailed"}
        /\ call.exc = ""
        /\ session_state.history # <<>>
        /\ session_state.history[Len(session_state.history)] = <<call.query, call.reply>>
        /\ call.ngenerate <= 1
        /\ call.outcome \in {"direct", "noresult"} => call.ngenerate = 0
        /\ (call.ngenerate = 1 /\ service.raises) =>
              /\ call.outcome = "genfailed"
              /\ call.reply = ERROR_CONTACTING \o service.err

---------------------------------------------------------------------------
(* C5 *)

\* C5: with no index loaded, decide_reply does not call the retriever and sends the
\* service the preamble followed by the query and nothing else: no retrieved
\* knowledge in the prompt, no "Sources:" appended to the reply.
C5_NoIndexPromptIsPreambleAndQuery ==
    (Called /\ ~HasIndex) =>
        /\ call.nretrieve = 0
        /\ call.ngenerate = 1
        /\ call.prompt = CULTURE_SYSTEM_PROMPT \o <<"\n\nUser: ">> \o call.query
        /\ Positions(call.prompt, "\n\nRetrieved knowledge:\n") = {}
        /\ Positions(call.reply, SOURCES_LABEL[1]) = {}

\* without an index a query was answered by the service, though the retriever had
\* entries to give
C5_Witness ==
    /\ Called
    /\ ~HasIndex
    /\ retrieved # <<>>
    /\ call.outcome = "generated"
    /\ call.reply = OK_TEXT

---------------------------------------------------------------------------
(* C6 *)

\* C6: with an index loaded and nothing retrieved, decide_reply returns the fixed
\* "couldn't find a direct reference" message and does not call the service.
C6_EmptyRetrievalIsNoResult ==
    (Called /\ HasIndex /\ retrieved = <<>>) =>
        /\ call.outcome = "noresult"
        /\ call.reply = NO_REFERENCE
        /\ call.ngenerate = 0
        /\ call.prompt = <<>>
        /\ session_state.history = <<<<call.query, NO_REFERENCE>>>>

\* nothing was retrieved, with a service that would have answered
C6_Witness ==
    /\ Called
    /\ HasIndex
    /\ retrieved = <<>>
    /\ service = SvcText(OK_TEXT)
    /\ call.nretrieve = 1

---------------------------------------------------------------------------
(* C2 *)

\* C2 as stated: in a direct answer the banner is there if and only if some
\* retrieved entry's normalized riskLevel (the first non-empty of risk_level, risk,
\* else "Info") is "urgent", whatever the case of its letters.
C2_BannerIffNormalizedRiskUrgent ==
    (UsedKB /\ call.outcome = "direct") =>
        (HasBanner <=> \E i \in 1..Len(retrieved) : lower(NormRisk(retrieved[i])) = URGENT)

\* C2 as amended: in a direct answer the banner is there if and only if some
\* retrieved entry, of any rank, has a risk_level field or a risk field that is
\* "urgent", whatever the case of its letters: either field is enough, also when
\* the other one is non-empty and not urgent.
C2_BannerIffEitherRiskFieldUrgent ==
    (UsedKB /\ call.outcome = "direct") =>
        (HasBanner <=>
            \E i \in 1..Len(retrieved) :
                \E k \in {"risk_level", "risk"} \cap DOMAIN retrieved[i] :
                    lower(retrieved[i][k]) = URGENT)

\* a direct answer carries the banner for an entry below the top one whose risk is
\* urgent although its risk_level says otherwise
C2_Witness ==
    /\ UsedKB
    /\ call.outcome = "direct"
    /\ HasBanner
    /\ Len(retrieved) >= 2
    /\ \A i \in 1..Len(retrieved) : lower(NormRisk(retrieved[i])) # URGENT

---------------------------------------------------------------------------
(* C3 *)

\* C3: every id and source shown (the direct answer's Source line, each header of
\* the prompt's context, each item of the "Sources:" list) is a non-empty string:
\* the source and the id are the first non-empty of source, "unknown" and of id,
\* chunk_id, "unknown".
C3_ShownIdentityIsNormalized ==
    UsedKB =>
        /\ call.outcome = "direct" =>
              /\ DirectSourceShown = NormSource(retrieved[1])
              /\ DirectIdShown = NormId(retrieved[1])
        /\ call.outcome \in Generation =>
              \A i \in 1..Len(retrieved) :
                  /\ HeaderSourceShown(i) = NormSource(retrieved[i])
                  /\ HeaderIdShown(i) = NormId(retrieved[i])
        /\ call.outcome = "generated" =>
              IsSortedJoin(SourcesShown,
                           {NormSource(e) \o <<" ", "(", "I", "D", " ">> \o NormId(e)
                                \o <<")">> : e \in Range(retrieved)})

---------------------------------------------------------------------------
(* C7 *)

\* C7: the "Sources:" list of a grounded answer depends only on the set of entries
\* retrieved: one "source (ID id)" item for each distinct (source, id) among them, in
\* ascending order, so the entries in any order, or with one repeated, give the
\* same list.
C7_SourcesDependOnTheSet ==
    (UsedKB /\ call.outcome = "generated") =>
        LET items == {SourceItem(e) : e \in Range(retrieved)}
            pairs == {<<get(e, "source", UNKNOWN), get(e, "id", get(e, "chunk_id", QMARK))>> :
                        e \in Range(retrieved)}
        IN  /\ IsSortedJoin(SourcesShown, items)
            /\ Cardinality(items) = Cardinality(pairs)
            /\ \A other \in Rearrangements(retrieved) :
                   SourcesList(other) = SourcesShown

\* two entries with distinct items were retrieved with the greater item first
C7_Witness ==
    /\ UsedKB
    /\ call.outcome = "generated"
    /\ Len(retrieved) = 2
    /\ StrLess(SourceItem(retrieved[2]), SourceItem(retrieved[1]))
    /\ SourcesShown = SourceItem(retrieved[2]) \o <<",", " ">> \o SourceItem(retrieved[1])

---------------------------------------------------------------------------
(* C8 *)

\* the blocks of the entries, first entry first
RECURSIVE BlocksInRankOrder(_)
BlocksInRankOrder(l) ==
    IF l = <<>> THEN <<>> ELSE ContextBlock(Head(l)) \o BlocksInRankOrder(Tail(l))

\* C8: the grounded prompt is the preamble, then one "[source | ID:id | Risk:risk]"
\* header and detailed answer for each retrieved entry in the order retrieved (the
\* i-th block from the i-th entry), then the user's question and the instruction
\* to cite.
C8_ContextInRankOrder ==
    (UsedKB /\ call.outcome \in Generation) =>
        /\ call.prompt =
              CULTURE_SYSTEM_PROMPT \o <<"\n\nRetrieved knowledge:\n">>
                  \o BlocksInRankOrder(retrieved) \o <<"\nUser question:\n">>
                  \o call.query
                  \o <<"\n\nAnswer using the retrieved knowledge and cite sources.">>
        /\ Cardinality(Positions(call.prompt, " | Risk:")) = Len(retrieved)

\* two entries with different blocks went into a prompt, in an order that is not
\* the ascending order of their blocks' sources
C8_Witness ==
    /\ UsedKB
    /\ call.outcome \in Generation
    /\ Len(retrieved) = 2
    /\ ContextBlock(retrieved[1]) # ContextBlock(retrieved[2])
    /\ StrLess(HeaderSourceShown(2), HeaderSourceShown(1))

---------------------------------------------------------------------------
(* C10 *)

\* the two values one successful load_index call returned, or None and None
OneLoad(index, metadata) ==
    \/ index = None /\ metadata = None
    \/ /\ index.obj = "index"
       /\ metadata.obj = "metadata"
       /\ index.load = metadata.load
       /\ index.load \in 1..nloads

\* C10: after any startup loads, imports and rebuilds, failed or not, INDEX and
\* METADATA are None and None or the pair of one successful load_index call; a failed
\* import or rebuild leaves the pair as it was; decide_reply never gives the
\* retriever an index and a metadata of different loads.
C10_PairIsOneLoad ==
    /\ OneLoad(INDEX, METADATA)
    /\ OneLoad(call.used[1], call.used[2])
    /\ (pc = "idle" /\ admin.op \in {"import", "rebuild"} /\ ~admin.ok)
          => <<INDEX, METADATA>> = admin.before

\* an import or rebuild failed between its two writes, and the pair loaded before
\* is still the one in use
C10_Witness ==
    /\ pc = "idle"
    /\ admin.op \in {"import", "rebuild"}
    /\ ~admin.ok
    /\ HasIndex
    /\ disk.index > disk.meta

====
